---- MODULE Spec2Model ----
(***************************************************************************)
(* Model of the notebooks' glue code:                                      *)
(*   09-API-Search.ipynb   the two agent tools (MyAPISearch,               *)
(*                         MySimpleAPISearch) and the outer retry loops,   *)
(*                         the spec download and its reduction;            *)
(*   06-TabularDataQA.ipynb the outer retry loop of the pandas agent;      *)
(*   04-Complex-Docs.ipynb the chain_type selection by token budget.       *)
(* The orchestration library (agent executor, APIChain) and the hosted     *)
(* services are collaborators: each of their calls is a step that either   *)
(* returns one of a small set of values or raises.                         *)
(***************************************************************************)
EXTENDS Integers, Sequences, FiniteSets, TLC

VARIABLES
    notebook,     \* which retry loop runs: "api", "simple" or "tabular"
    tool,         \* the tool object by its fields
    opc,          \* position in the outer retry loop
    i,            \* the loop variable of `for i in range(n)`; -1 before the loop
    response,     \* the notebook variable `response`
    displayed,    \* what printmd(response) / print(response) showed
    apc,          \* position of agent_executor.run
    calls,        \* tool invocations made by the current agent run
    tpc,          \* position inside the tool's _run
    query,        \* the argument of _run
    api_url,      \* the URL the chain's request step produced
    api_response, \* the body the outbound request returned
    tresponse,    \* the local variable `response` of _run
    exc,          \* the exception in flight, if any
    toolResult,   \* the value _run returned to the agent
    api_docs,     \* the api_docs the chain of the current invocation was built with
    inflight,     \* tool invocations entered and not yet left
    trace,        \* the steps the current invocation has taken, in order
    sent,         \* the HTTP requests the current invocation has issued
    failures,     \* attempts of the outer loop that raised
    lastExc,      \* the exception the latest failed attempt raised
    raised,       \* the exceptions of the failed attempts, in order
    returned,     \* the value the first returning attempt returned
    counts,       \* per cell: _run calls of MyAPISearch, chains built, pauses, chain runs
    upc,          \* position in the upload loop
    book_pages_map,    \* the parsed books: name and pages, in insertion order
    bk,           \* index of the current book
    pg,           \* index of the current page in its book
    attempted,    \* (book, page_num) of the pages the loop body was entered for
    posted,       \* the ids of the documents the index accepted
    reports,      \* what the loop printed about failed pages
    ipc,          \* position in the computation of two document ids
    pairs,        \* two (book name, page number) pairs
    ids,          \* their document ids
    dpc,          \* position in the document-QA cells
    top_docs,     \* the documents the search returned, each by its token count
    tokens_limit, \* model_tokens_limit(MODEL)
    prompt_tokens,     \* num_tokens_from_string(COMBINE_PROMPT_TEMPLATE)
    completion_tokens, \* COMPLETION_TOKENS
    requested_tokens,  \* prompt + context + completion tokens
    chain_type,   \* "stuff", "map_reduce", or "unbound" while never assigned
    chain,        \* the chain load_qa_with_sources_chain built
    rpc,          \* position in the spec download and reduction cells
    spec,         \* the downloaded API description, or None
    reduced_api_spec,  \* reduce_openapi_spec(spec)
    spec_tokens,       \* the printed size of str(spec)
    reduced_tokens     \* the printed size of str(reduced_api_spec)

vars == <<notebook, tool, opc, i, response, displayed, apc, calls, tpc, query,
          api_url, api_response, tresponse, exc, toolResult, trace, sent,
          api_docs, inflight, failures, lastExc, raised, returned, counts,
          upc, book_pages_map, bk, pg, attempted, posted, reports, ipc, pairs, ids, dpc, top_docs, tokens_limit, prompt_tokens,
          completion_tokens, requested_tokens, chain_type, chain,
          rpc, spec, reduced_api_spec, spec_tokens, reduced_tokens>>

loopVars == <<notebook, tool, opc, i, response, displayed, apc, calls, exc,
              failures, lastExc, inflight, raised, returned>>
redVars == <<rpc, spec, reduced_api_spec, spec_tokens, reduced_tokens>>
docVars == <<dpc, top_docs, tokens_limit, prompt_tokens, completion_tokens,
             requested_tokens, chain_type, chain>>

toolVars == <<tpc, query, api_url, api_response, tresponse, toolResult, trace, sent,
              api_docs, counts>>
upVars == <<upc, book_pages_map, bk, pg, attempted, posted, reports>>
idVars == <<ipc, pairs, ids>>

----------------------------------------------------------------------------
(* Values *)

\* A Python value crossing a boundary: a str, an exception object, or no value.
Text(s) == [kind |-> "text", val |-> s]
ExcObj(m) == [kind |-> "exception", val |-> m]
Unbound == [kind |-> "unbound", val |-> ""]

\* str(e): the message text of an exception.
StrOf(e) == Text(e.val)

\* Bound on the tool invocations of one agent run.
MaxToolCalls == 2

\* range(2) of the API-search loops, range(5) of the tabular loop.
ApiRetries == 2
TabularRetries == 5

Notebooks == {"api", "simple", "tabular"}
Queries == {"tests in Argentina vs USA", "SanDisk memory card price"}
Answers == {"final answer"}

\* URLs as urlparse splits them.
Url(s, n, p) == [scheme |-> s, netloc |-> n, path |-> p]
AllowedUrl == Url("https", "disease.sh", "/v3/covid-19/countries/Argentina,USA")
Urls == { AllowedUrl,
          Url("https", "y.test", "/v3/covid-19/all"),
          Url("http", "disease.sh", "/v3/covid-19/all") }
Domain(s, n) == [scheme |-> s, netloc |-> n]
DiseaseSh == Domain("https", "disease.sh")

\* Bodies an HTTP response can carry.
JsonBody == "{json}"
HtmlBody == "<html>"
Bodies == {JsonBody, HtmlBody}

CountdownEndpoint == "https://api.countdownapi.com/request"
ApiKeys == {"demo", "key-1"}

\* name and description of both tool classes; headers defaults to {}.
ToolName == "@apisearch"
ToolDescription == "useful when the questions includes the term: @apisearch."
NoHeaders == <<>>

\* A tool object by its fields.
ToolObj(c, docs, l, k) ==
    [cls |-> c, name |-> ToolName, description |-> ToolDescription,
     api_spec |-> docs, headers |-> NoHeaders, limit_to_domains |-> l, api_key |-> k]

\* Variant: the tool is handed the reduced description.
ToolConfigsReduced(nb, full, reduced) ==
    IF nb = "api"
    THEN { ToolObj("MyAPISearch", Text(reduced), l, "") : l \in {<<>>, <<DiseaseSh>>} }
    ELSE IF nb = "simple"
    THEN { ToolObj("MySimpleAPISearch", Text(""), <<>>, k) : k \in ApiKeys }
    ELSE { ToolObj("python_repl", Text(""), <<>>, "") }

\* The fields of the tool object built at line 463 (MyAPISearch) or 640
\* (MySimpleAPISearch), given the downloaded description `spec` and
\* `reduced_api_spec`: api_spec=str(spec); limit_to_domains defaults to the
\* empty list.
ToolConfigs(nb, full, reduced) ==
    IF nb = "api"
    THEN { ToolObj("MyAPISearch", Text(full), l, "") : l \in {<<>>, <<DiseaseSh>>} }
    ELSE IF nb = "simple"
    THEN { ToolObj("MySimpleAPISearch", Text(""), <<>>, k) : k \in ApiKeys }
    ELSE { ToolObj("python_repl", Text(""), <<>>, "") }

\* Exceptions by origin.
ConstructionError == ExcObj("chain construction failed")
ModelFailure == ExcObj("completion request failed")
DomainNotAllowed == ExcObj("url is not in the allowed domains")
UpstreamFailure == ExcObj("connection error")
DecodeError == ExcObj("response is not JSON")
AsyncNotSupported == ExcObj("This Tool does not support async")
ParseError == ExcObj("could not parse LLM output")

NoUrl == Url("", "", "")
NoExc == ExcObj("")

----------------------------------------------------------------------------
(* Helpers translated from the code *)

\* Variant: the tabular loop given the bound of the API-search loops.
RetriesAllTwo(nb) == ApiRetries

\* Variant: the loops make one attempt more.
RetriesOneMore(nb) == IF nb = "tabular" THEN TabularRetries + 1 ELSE ApiRetries + 1

\* range(n) of the retry loop of each notebook.
Retries(nb) == IF nb = "tabular" THEN TabularRetries ELSE ApiRetries

\* Variant: every loop assigns the fixed message of the tabular loop.
OuterExceptValueFixed(nb, e) == Text("Error too many failed retries")

\* Variant: every loop assigns str(e).
OuterExceptValueStr(nb, e) == StrOf(e)

\* Variant: the except clause assigns an empty text.
OuterExceptValueSilent(nb, e) == Text("")

\* What the except clause of the retry loop assigns to `response`:
\* str(e) in the API-search loops, a fixed message in the tabular loop.
TooManyRetries == Text("Error too many failed retries")
OuterExceptValue(nb, e) == IF nb = "tabular" THEN TooManyRetries ELSE StrOf(e)

\* Variant: the except clause lets everything but failed requests pass.
CatchesTransientOnly(nb, e) == e \in {ModelFailure, UpstreamFailure}

\* `except Exception as e:` (API-search loops) and the bare `except:` (tabular
\* loop) catch every exception an attempt can raise.
Catches(nb, e) == TRUE

\* What the except clause of _run assigns to `response`: the exception itself.
CaughtValue(e) == e

\* The errors agent_executor.run can raise by itself; the agent of the simple
\* tool is built with handle_parsing_errors=True.
AgentErrors(nb) == IF nb = "simple" THEN {ModelFailure} ELSE {ModelFailure, ParseError}

\* Variant: the success branch has no break and the loop goes on.
AfterReturnNoBreak(nb) == "for"

\* `break` after response = agent_executor.run(...): the statement after the
\* loop is next.
AfterReturn(nb) == "print"

\* The chain runs the invocation with this trace has started.
ChainRunsOf(tr) == Cardinality({ k \in DOMAIN tr : tr[k] = "synth" })

\* Variant: the except clause of MyAPISearch._run runs the chain once more.
AfterToolExceptRetry(cls, n) == IF cls = "MyAPISearch" /\ n = 1 THEN "synth" ELSE "return"

\* After the except clause of _run comes `return response`: no second run.
AfterToolExcept(cls, n) == "return"

\* Variant: the agent hands out a second call while one is running.
AgentMayCallAnytime(a) == a \in {"think", "tool"}

\* agent_executor.run calls a tool only between two of its turns, after the
\* previous call has come back.
AgentMayCall(a) == a = "think"

\* Variant: _run remembers the last query in the tool's description.
ToolAfterRunRemembers(t, q) == [t EXCEPT !.description = q]

\* The tool object after _run(q): no statement of _run assigns to self.
ToolAfterRun(t, q) == t

\* limit_to_domains of APIChain: the URL's scheme and host must equal those of
\* one allow-listed domain; an empty list allows everything.
InAllowedDomain(url, domains) ==
    \E k \in 1..Len(domains) :
        url.scheme = domains[k].scheme /\ url.netloc = domains[k].netloc
DomainRejected(url, domains) == Len(domains) > 0 /\ ~InAllowedDomain(url, domains)

\* Variant: the request is executed before the allow-list is consulted.
ChainNextExecuteFirst(step) ==
    CASE step = "synth" -> "execute"
      [] step = "execute" -> "check"
      [] step = "check" -> "summarize"
      [] step = "summarize" -> "return"

\* The order of the steps of chain.run.
ChainNext(step) ==
    CASE step = "synth" -> "check"
      [] step = "check" -> "execute"
      [] step = "execute" -> "summarize"
      [] step = "summarize" -> "return"

\* The request of RequestsWrapper.get(api_url).
ChainRequest(url) == [method |-> "GET", url |-> url, params |-> <<>>]

\* Variant: the demo cell's fixed search term left in the tool.
SimpleParamsFixedTerm(key, q) ==
    [api_key |-> key, type |-> "search", ebay_domain |-> "ebay.com",
     search_term |-> "memory cards"]

\* The params dict and the GET of MySimpleAPISearch._run.
SimpleParams(key, q) ==
    [api_key |-> key, type |-> "search", ebay_domain |-> "ebay.com", search_term |-> q]
SimpleRequest(key, q) ==
    [method |-> "GET", url |-> CountdownEndpoint, params |-> SimpleParams(key, q)]

\* json.dumps(api_result.json()): text for a JSON body, an error otherwise.
IsJson(body) == body = JsonBody

----------------------------------------------------------------------------
(* API descriptions, reduce_openapi_spec and the size of a description in    *)
(* tokens. reduce_openapi_spec and num_tokens_from_string live in            *)
(* common/utils.py; they are modelled from the Spec Reducer and Token        *)
(* Estimator contracts.                                                      *)

\* Bound on the operations of one API description.
MaxOps == 2

\* Free text is a sequence of words.
Summaries == {<<"get", "country">>}
DescriptionTexts == {<<"get", "country", "totals", "by", "name">>}
ResponseShapes == {<<>>, <<"updated", "country", "cases", "deaths", "tests">>}
InfoText == <<"disease.sh", "docs", "open", "disease", "data">>

\* Parameters: one with exactly the metadata, one with schema and example on
\* top of it, one without required flag and type.
ParamPlain == [name |-> "country", in |-> "path", required |-> TRUE, type |-> "string"]
ParamVerbose ==
    [name |-> "strict", in |-> "query", required |-> FALSE, type |-> "boolean",
     schema |-> <<"enum", "true", "false">>, example |-> <<"true">>]
ParamBare == [name |-> "yesterday", in |-> "query"]
ParamLists == {<<ParamPlain>>, <<ParamVerbose, ParamBare>>}

\* (method, path) pairs of the operations, in document order.
OpKeys == << <<"get", "/v3/covid-19/all">>,
             <<"get", "/v3/covid-19/countries/{country}">>,
             <<"post", "/v3/covid-19/all">> >>

\* The operations: method, path and response shape always, summary,
\* description and parameters each present or not.
OpBase(key, r) == [method |-> key[1], path |-> key[2], responses |-> r]
WithSummary(o) == {o} \cup { o @@ [summary |-> t] : t \in Summaries }
WithDescription(o) == {o} \cup { o @@ [description |-> t] : t \in DescriptionTexts }
WithParameters(o) == {o} \cup { o @@ [parameters |-> ps] : ps \in ParamLists }
OpsOf(key) ==
    UNION { UNION { UNION { WithParameters(o2) : o2 \in WithDescription(o1) }
                    : o1 \in WithSummary(OpBase(key, r)) }
            : r \in ResponseShapes }

\* Every operation has a unique (method, path) pair.
UniqueKeys(ops) ==
    \A a, b \in 1..Len(ops) :
        a # b => <<ops[a].method, ops[a].path>> # <<ops[b].method, ops[b].path>>

\* The API descriptions: a mapping with an operation collection, with or
\* without an info text beside it.
RECURSIVE OpListsFrom(_, _)
OpListsFrom(j, n) ==
    IF n = 0 \/ j > Len(OpKeys)
    THEN {<<>>}
    ELSE OpListsFrom(j + 1, n)
         \cup { <<o>> \o rest : o \in OpsOf(OpKeys[j]), rest \in OpListsFrom(j + 1, n - 1) }
OpLists == OpListsFrom(1, MaxOps) \ {<<>>}
ValidSpecs ==
    { [kind |-> "mapping", paths |-> ops] : ops \in OpLists }
    \cup { [kind |-> "mapping", info |-> InfoText, paths |-> ops] : ops \in OpLists }

\* Mappings that describe no operation: no operation collection, or an empty one.
MalformedSpecs ==
    { [kind |-> "mapping", info |-> InfoText],
      [kind |-> "mapping", info |-> InfoText, paths |-> <<>>] }

HasOperations(d) ==
    /\ d.kind = "mapping"
    /\ "paths" \in DOMAIN d
    /\ Len(d.paths) > 0

MalformedSpec == Text("MalformedSpec")

\* Parameter metadata only: name, location, required, primitive type; absent
\* ones get empty defaults.
ReduceParam(p) ==
    [name |-> p.name,
     in |-> p.in,
     required |-> IF "required" \in DOMAIN p THEN p.required ELSE FALSE,
     type |-> IF "type" \in DOMAIN p THEN p.type ELSE ""]

\* Variant: the method is written into the summary line.
ReduceOpPrefixed(op) ==
    [method |-> op.method,
     path |-> op.path,
     summary |-> <<op.method>> \o
                 (IF "summary" \in DOMAIN op THEN op.summary
                  ELSE IF "description" \in DOMAIN op THEN op.description
                  ELSE <<>>),
     parameters |-> IF "parameters" \in DOMAIN op
                    THEN [k \in 1..Len(op.parameters) |-> ReduceParam(op.parameters[k])]
                    ELSE <<>>]

\* Variant: the description text is copied into the summary and kept as well.
ReduceOpKeepsDescription(op) ==
    LET params == IF "parameters" \in DOMAIN op
                  THEN [k \in 1..Len(op.parameters) |-> ReduceParam(op.parameters[k])]
                  ELSE <<>>
    IN  IF "description" \in DOMAIN op
        THEN [method |-> op.method, path |-> op.path,
              summary |-> IF "summary" \in DOMAIN op THEN op.summary ELSE op.description,
              description |-> op.description,
              parameters |-> params]
        ELSE [method |-> op.method, path |-> op.path,
              summary |-> IF "summary" \in DOMAIN op THEN op.summary ELSE <<>>,
              parameters |-> params]

\* Variant: the description text is preferred to the summary.
ReduceOpDescriptionFirst(op) ==
    [method |-> op.method,
     path |-> op.path,
     summary |-> IF "description" \in DOMAIN op THEN op.description
                 ELSE IF "summary" \in DOMAIN op THEN op.summary
                 ELSE <<>>,
     parameters |-> IF "parameters" \in DOMAIN op
                    THEN [k \in 1..Len(op.parameters) |-> ReduceParam(op.parameters[k])]
                    ELSE <<>>]

\* One operation reduced: method, path, summary (the description text when
\* there is no summary), parameter metadata; nothing else.
ReduceOp(op) ==
    [method |-> op.method,
     path |-> op.path,
     summary |-> IF "summary" \in DOMAIN op THEN op.summary
                 ELSE IF "description" \in DOMAIN op THEN op.description
                 ELSE <<>>,
     parameters |-> IF "parameters" \in DOMAIN op
                    THEN [k \in 1..Len(op.parameters) |-> ReduceParam(op.parameters[k])]
                    ELSE <<>>]

\* Variant: the operation collection is read without looking whether it is there.
reduce_openapi_spec_unguarded(d) ==
    IF d.kind = "mapping" /\ "paths" \in DOMAIN d
    THEN [kind |-> "mapping",
          paths |-> [k \in 1..Len(d.paths) |-> ReduceOp(d.paths[k])]]
    ELSE ExcObj("'paths'")

\* Variant: summary and parameters are read without looking whether they are
\* there.
reduce_openapi_spec_strict(d) ==
    IF HasOperations(d)
    THEN IF \A k \in 1..Len(d.paths) : {"summary", "parameters"} \subseteq DOMAIN d.paths[k]
         THEN [kind |-> "mapping",
               paths |-> [k \in 1..Len(d.paths) |-> ReduceOp(d.paths[k])]]
         ELSE ExcObj("'parameters'")
    ELSE MalformedSpec

\* The Spec Reducer.
reduce_openapi_spec(d) ==
    IF HasOperations(d)
    THEN [kind |-> "mapping",
          paths |-> [k \in 1..Len(d.paths) |-> ReduceOp(d.paths[k])]]
    ELSE MalformedSpec

\* The size of str(x) in tokens: one token per key, per bracket pair, per
\* word, boolean or short string, and one for the quotes of a text.
SizeText(t) == 1 + Len(t)

SizeParam(p) ==
    1 + (1 + 1) + (1 + 1)
      + (IF "required" \in DOMAIN p THEN 1 + 1 ELSE 0)
      + (IF "type" \in DOMAIN p THEN 1 + 1 ELSE 0)
      + (IF "schema" \in DOMAIN p THEN 1 + SizeText(p.schema) ELSE 0)
      + (IF "example" \in DOMAIN p THEN 1 + SizeText(p.example) ELSE 0)

RECURSIVE SizeParams(_)
SizeParams(ps) == IF ps = <<>> THEN 0 ELSE SizeParam(Head(ps)) + SizeParams(Tail(ps))

SizeOp(op) ==
    1 + (1 + 1) + (1 + 1)
      + (IF "summary" \in DOMAIN op THEN 1 + SizeText(op.summary) ELSE 0)
      + (IF "description" \in DOMAIN op THEN 1 + SizeText(op.description) ELSE 0)
      + (IF "parameters" \in DOMAIN op THEN 1 + 1 + SizeParams(op.parameters) ELSE 0)
      + (IF "responses" \in DOMAIN op THEN 1 + SizeText(op.responses) ELSE 0)

RECURSIVE SizeOps(_)
SizeOps(ops) == IF ops = <<>> THEN 0 ELSE SizeOp(Head(ops)) + SizeOps(Tail(ops))

SerializedSize(d) ==
    IF d.kind = "mapping"
    THEN 1 + (IF "info" \in DOMAIN d THEN 1 + SizeText(d.info) ELSE 0)
           + (IF "paths" \in DOMAIN d THEN 1 + 1 + SizeOps(d.paths) ELSE 0)
    ELSE 1

----------------------------------------------------------------------------
(* Initial state: the tool and the agent are built, the loop has not started *)

\* The upload loop is not running; no ids are being computed.
UploadIdle ==
    /\ upc = "off"
    /\ book_pages_map = <<>>
    /\ bk = 0
    /\ pg = 0
    /\ attempted = <<>>
    /\ posted = <<>>
    /\ reports = <<>>
IdsIdle ==
    /\ ipc = "off"
    /\ pairs = <<>>
    /\ ids = <<>>

ToolIdle ==
    /\ tpc = "idle"
    /\ query = ""
    /\ api_url = NoUrl
    /\ api_response = ""
    /\ tresponse = Unbound
    /\ toolResult = Unbound
    /\ trace = <<>>
    /\ sent = <<>>
    /\ api_docs = Unbound
    /\ counts = [runs |-> 0, built |-> 0, sleeps |-> 0, chainRuns |-> 0]

\* None, also the value of `spec` after a failed download.
NoneSpec == [kind |-> "none"]

\* The download and reduction cells are not running.
ReducerIdle ==
    /\ rpc = "off"
    /\ spec = NoneSpec
    /\ reduced_api_spec = NoneSpec
    /\ spec_tokens = 0
    /\ reduced_tokens = 0

\* The document-QA cells are not running.
DocsIdle ==
    /\ dpc = "off"
    /\ top_docs = <<>>
    /\ tokens_limit = 0
    /\ prompt_tokens = 0
    /\ completion_tokens = 0
    /\ requested_tokens = 0
    /\ chain_type = "unbound"
    /\ chain = "unbound"

\* Two descriptions the download cell can leave in `spec`: one operation with
\* everything, or one with nothing optional.
FullOp ==
    OpBase(OpKeys[2], <<"updated", "country", "cases", "deaths", "tests">>)
    @@ [summary |-> <<"get", "country">>,
        description |-> <<"get", "country", "totals", "by", "name">>,
        parameters |-> <<ParamPlain>>]
DownloadedSpecs ==
    { [kind |-> "mapping", info |-> InfoText, paths |-> <<FullOp>>],
      [kind |-> "mapping", paths |-> <<OpBase(OpKeys[1], <<>>)>>] }

\* The download, reduction and size cells have run (they precede the tool's
\* cell in 09-API-Search.ipynb).
ReducerRan ==
    /\ rpc = "done"
    /\ spec \in DownloadedSpecs
    /\ reduced_api_spec = reduce_openapi_spec(spec)
    /\ spec_tokens = SerializedSize(spec)
    /\ reduced_tokens = SerializedSize(reduced_api_spec)

Init ==
    /\ notebook \in Notebooks
    /\ IF notebook = "api" THEN ReducerRan ELSE ReducerIdle
    /\ tool \in ToolConfigs(notebook, spec, reduced_api_spec)
    /\ opc = "for"
    /\ i = -1
    /\ response = Unbound
    /\ displayed = Unbound
    /\ apc = "idle"
    /\ calls = 0
    /\ exc = NoExc
    /\ failures = 0
    /\ lastExc = NoExc
    /\ raised = <<>>
    /\ returned = Unbound
    /\ inflight = 0
    /\ ToolIdle
    /\ DocsIdle
    /\ UploadIdle
    /\ IdsIdle

----------------------------------------------------------------------------
(* The outer retry loop: for i in range(n): try: response = run(); break     *)
(*                       except: response = ...; continue                    *)

\* The for statement takes the next value of range(n) and enters the try.
LoopEnter ==
    /\ opc = "for"
    /\ i + 1 < Retries(notebook)
    /\ i' = i + 1
    /\ opc' = "try"
    /\ apc' = "think"
    /\ calls' = 0
    /\ UNCHANGED <<notebook, returned, tool, response, displayed, failures, lastExc, raised, exc, inflight>>
    /\ UNCHANGED toolVars
    /\ UNCHANGED docVars
    /\ UNCHANGED redVars
    /\ UNCHANGED upVars
    /\ UNCHANGED idVars

\* range(n) is exhausted: fall through to the print.
LoopExhausted ==
    /\ opc = "for"
    /\ i + 1 >= Retries(notebook)
    /\ opc' = "print"
    /\ UNCHANGED <<notebook, returned, tool, i, response, displayed, failures, lastExc, raised, exc,
                   apc, calls, inflight>>
    /\ UNCHANGED toolVars
    /\ UNCHANGED docVars
    /\ UNCHANGED redVars
    /\ UNCHANGED upVars
    /\ UNCHANGED idVars

\* agent_executor.run returned: response = <its value>; break.
AgentFinish ==
    /\ opc = "try"
    /\ apc = "think"
    /\ \E a \in Answers : response' = Text(a)
    /\ returned' = IF returned = Unbound THEN response' ELSE returned
    /\ apc' = "idle"
    /\ opc' = AfterReturn(notebook)
    /\ UNCHANGED <<notebook, tool, i, displayed, failures, lastExc, raised, exc, calls, inflight>>
    /\ UNCHANGED toolVars
    /\ UNCHANGED docVars
    /\ UNCHANGED redVars
    /\ UNCHANGED upVars
    /\ UNCHANGED idVars

\* The except clause of the loop, for an exception e escaping the run: what
\* it catches is recorded in `response` and the loop continues; anything else
\* would leave the cell.
OuterExcept(e) ==
    /\ IF Catches(notebook, e)
       THEN /\ response' = OuterExceptValue(notebook, e)
            /\ failures' = failures + 1
            /\ opc' = "for"
       ELSE /\ opc' = "aborted"
            /\ UNCHANGED <<response, failures>>
    /\ lastExc' = e
    /\ raised' = Append(raised, e)
    /\ apc' = "idle"
    /\ exc' = NoExc
    /\ UNCHANGED <<notebook, returned, tool, i, displayed, calls>>
    /\ UNCHANGED docVars
    /\ UNCHANGED redVars
    /\ UNCHANGED upVars
    /\ UNCHANGED idVars

\* agent_executor.run raised by itself (completion failure, unparsable output).
AgentRaise ==
    /\ opc = "try"
    /\ apc = "think"
    /\ \E e \in AgentErrors(notebook) : OuterExcept(e)
    /\ UNCHANGED inflight
    /\ UNCHANGED toolVars

\* An exception escaped the tool's _run or _arun: it crosses the agent run and
\* reaches the except clause of the loop.
ToolRaisePropagates ==
    /\ opc = "try"
    /\ apc = "tool"
    /\ tpc \in {"raised", "araised"}
    /\ OuterExcept(exc)
    /\ tpc' = "idle"
    /\ inflight' = inflight - 1
    /\ UNCHANGED <<query, counts, api_docs, api_url, api_response, tresponse, toolResult, trace, sent>>

\* printmd(response) / print(response).
PrintResponse ==
    /\ opc = "print"
    /\ displayed' = response
    /\ opc' = "done"
    /\ UNCHANGED <<notebook, returned, tool, i, response, failures, lastExc, raised, exc, apc, calls,
                   inflight>>
    /\ UNCHANGED toolVars
    /\ UNCHANGED docVars
    /\ UNCHANGED redVars
    /\ UNCHANGED upVars
    /\ UNCHANGED idVars

----------------------------------------------------------------------------
(* The agent run calls the tool: tool._run(query) *)

\* The two entry points of a tool.
EntryPoints == {"_run", "_arun"}

\* The agent selects the tool and passes it a query; the entry point starts
\* afresh. A synchronous run enters _run, an asynchronous one _arun.
ToolStart ==
    /\ opc = "try"
    /\ AgentMayCall(apc)
    /\ notebook \in {"api", "simple"}
    /\ calls < MaxToolCalls
    /\ \E q \in Queries : query' = q
    /\ calls' = calls + 1
    /\ inflight' = inflight + 1
    /\ apc' = "tool"
    /\ \E entry \in EntryPoints :
          /\ tpc' = IF entry = "_arun" THEN "arun"
                    ELSE IF tool.cls = "MyAPISearch" THEN "construct" ELSE "get"
          /\ counts' = IF entry = "_run" /\ tool.cls = "MyAPISearch"
                       THEN [counts EXCEPT !.runs = @ + 1]
                       ELSE counts
    /\ api_docs' = Unbound
    /\ api_url' = NoUrl
    /\ api_response' = ""
    /\ tresponse' = Unbound
    /\ trace' = <<>>
    /\ sent' = <<>>
    /\ UNCHANGED <<notebook, returned, tool, opc, i, response, displayed, failures, lastExc, raised, exc,
                   toolResult>>
    /\ UNCHANGED docVars
    /\ UNCHANGED redVars
    /\ UNCHANGED upVars
    /\ UNCHANGED idVars

\* Inside _run: only the tool's own variables and the exception in flight change.
ToolFrame ==
    /\ UNCHANGED <<notebook, returned, tool, opc, i, response, displayed, failures, lastExc, raised,
                   apc, calls, toolResult, inflight>>
    /\ UNCHANGED docVars
    /\ UNCHANGED redVars
    /\ UNCHANGED upVars
    /\ UNCHANGED idVars

\* _arun of both tools: raise NotImplementedError("This Tool does not support
\* async"), and nothing else.
Arun ==
    /\ tpc = "arun"
    /\ tpc' = "araised"
    /\ exc' = AsyncNotSupported
    /\ ToolFrame
    /\ UNCHANGED <<query, counts, api_docs, api_url, api_response, tresponse, trace, sent>>

(* MyAPISearch._run *)

\* chain = APIChain.from_llm_and_api_docs(...), before the try statement.
ChainConstruct ==
    /\ tpc = "construct"
    /\ \/ /\ tpc' = "sleep"
          /\ api_docs' = tool.api_spec
          /\ counts' = [counts EXCEPT !.built = @ + 1]
          /\ UNCHANGED exc
       \/ /\ tpc' = "raised"
          /\ exc' = ConstructionError
          /\ UNCHANGED <<api_docs, counts>>
    /\ ToolFrame
    /\ UNCHANGED <<query, api_url, api_response, tresponse, trace, sent>>

\* sleep(2), the first statement of the try.
Sleep ==
    /\ tpc = "sleep"
    /\ tpc' = "synth"
    /\ counts' = [counts EXCEPT !.sleeps = @ + 1]
    /\ ToolFrame
    /\ UNCHANGED <<query, api_docs, api_url, api_response, tresponse, trace, sent, exc>>

\* chain.run, step 1: the completion model writes the URL for the question.
ChainSynth ==
    /\ tpc = "synth"
    /\ trace' = Append(trace, "synth")
    /\ counts' = [counts EXCEPT !.chainRuns = @ + 1]
    /\ \/ /\ \E u \in Urls : api_url' = u
          /\ tpc' = ChainNext("synth")
          /\ UNCHANGED exc
       \/ /\ tpc' = "except"
          /\ exc' = ModelFailure
          /\ UNCHANGED api_url
    /\ ToolFrame
    /\ UNCHANGED <<query, api_docs, api_response, tresponse, sent>>

\* chain.run, step 2: the URL is held against limit_to_domains.
ChainCheck ==
    /\ tpc = "check"
    /\ trace' = Append(trace, "check")
    /\ IF DomainRejected(api_url, tool.limit_to_domains)
       THEN /\ tpc' = "except"
            /\ exc' = DomainNotAllowed
       ELSE /\ tpc' = ChainNext("check")
            /\ UNCHANGED exc
    /\ ToolFrame
    /\ UNCHANGED <<query, counts, api_docs, api_url, api_response, tresponse, sent>>

\* chain.run, step 3: the GET of the URL.
ChainExecute ==
    /\ tpc = "execute"
    /\ trace' = Append(trace, "execute")
    /\ sent' = Append(sent, ChainRequest(api_url))
    /\ \/ /\ \E b \in Bodies : api_response' = b
          /\ tpc' = ChainNext("execute")
          /\ UNCHANGED exc
       \/ /\ tpc' = "except"
          /\ exc' = UpstreamFailure
          /\ UNCHANGED api_response
    /\ ToolFrame
    /\ UNCHANGED <<query, counts, api_docs, api_url, tresponse>>

\* chain.run, step 4: the completion model summarizes the body; response = <text>.
ChainSummarize ==
    /\ tpc = "summarize"
    /\ trace' = Append(trace, "summarize")
    /\ \/ /\ tresponse' = Text("summary")
          /\ tpc' = ChainNext("summarize")
          /\ UNCHANGED exc
       \/ /\ tpc' = "except"
          /\ exc' = ModelFailure
          /\ UNCHANGED tresponse
    /\ ToolFrame
    /\ UNCHANGED <<query, counts, api_docs, api_url, api_response, sent>>

\* except Exception as e: response = e  (both tools).
ToolExcept ==
    /\ tpc = "except"
    /\ tresponse' = CaughtValue(exc)
    /\ exc' = NoExc
    /\ tpc' = AfterToolExcept(tool.cls, ChainRunsOf(trace))
    /\ ToolFrame
    /\ UNCHANGED <<query, counts, api_docs, api_url, api_response, trace, sent>>

\* return response  (both tools): the agent receives the value as observation.
ToolReturn ==
    /\ tpc = "return"
    /\ apc = "tool"
    /\ toolResult' = tresponse
    /\ tool' = ToolAfterRun(tool, query)
    /\ trace' = Append(trace, "return")
    /\ tpc' = "idle"
    /\ apc' = "think"
    /\ inflight' = inflight - 1
    /\ UNCHANGED <<notebook, returned, opc, i, response, displayed, failures, lastExc, raised,
                   calls, exc, query, counts, api_docs, api_url, api_response, tresponse, sent>>
    /\ UNCHANGED docVars
    /\ UNCHANGED redVars
    /\ UNCHANGED upVars
    /\ UNCHANGED idVars

(* MySimpleAPISearch._run *)

\* api_result = requests.get(endpoint, params), before the try statement.
SimpleGet ==
    /\ tpc = "get"
    /\ trace' = Append(trace, "execute")
    /\ sent' = Append(sent, SimpleRequest(tool.api_key, query))
    /\ \/ /\ \E b \in Bodies : api_response' = b
          /\ tpc' = "dumps"
          /\ UNCHANGED exc
       \/ /\ tpc' = "raised"
          /\ exc' = UpstreamFailure
          /\ UNCHANGED api_response
    /\ ToolFrame
    /\ UNCHANGED <<query, counts, api_docs, api_url, tresponse>>

\* try: response = json.dumps(api_result.json())
SimpleDumps ==
    /\ tpc = "dumps"
    /\ IF IsJson(api_response)
       THEN /\ tresponse' = Text(api_response)
            /\ tpc' = "return"
            /\ UNCHANGED exc
       ELSE /\ tpc' = "except"
            /\ exc' = DecodeError
            /\ UNCHANGED tresponse
    /\ ToolFrame
    /\ UNCHANGED <<query, counts, api_docs, api_url, api_response, trace, sent>>

----------------------------------------------------------------------------

\* After the print the cell has ended.
Done ==
    /\ opc = "done"
    /\ UNCHANGED vars

Next ==
    \/ LoopEnter
    \/ LoopExhausted
    \/ AgentFinish
    \/ AgentRaise
    \/ ToolRaisePropagates
    \/ PrintResponse
    \/ ToolStart
    \/ Arun
    \/ ChainConstruct
    \/ Sleep
    \/ ChainSynth
    \/ ChainCheck
    \/ ChainExecute
    \/ ChainSummarize
    \/ ToolExcept
    \/ ToolReturn
    \/ SimpleGet
    \/ SimpleDumps
    \/ Done

Spec == Init /\ [][Next]_vars

\* The cell keeps executing: a step that can be taken is taken, and every
\* call of a collaborator returns or raises.
SpecFair == Spec /\ WF_vars(Next)

----------------------------------------------------------------------------
(* 04-Complex-Docs.ipynb: the choice of chain_type by token budget *)

\* Bound on the number of documents in top_docs.
MaxDocs == 2

COMPLETION_TOKENS == 1000

\* Token limits of the models, and two round budgets.
TokenLimits == {20, 4096, 8192, 16384, 32768}
PromptTokens == {3, 1669}
CompletionTokens == {5, COMPLETION_TOKENS}
DocTokens == {5, 10, 4111, 30000}

SeqsUpTo(S, n) == UNION { [1..k -> S] : k \in 0..n }

\* num_tokens_from_docs(top_docs): the tokens of all documents together.
RECURSIVE num_tokens_from_docs(_)
num_tokens_from_docs(docs) ==
    IF docs = <<>> THEN 0 ELSE Head(docs) + num_tokens_from_docs(Tail(docs))

\* Variant: the threshold compared with >= instead of >.
ChainTypeAtLeast(requested, limit) ==
    IF 10 * requested >= 9 * limit THEN "map_reduce" ELSE "stuff"

\* "map_reduce" if requested_tokens > 0.9 * tokens_limit else "stuff".
\* Both sides are taken times ten: for budgets of this size the double
\* 0.9 * limit compares with an integer as the exact 9 * limit / 10 does.
ChainType(requested, limit) ==
    IF 10 * requested > 9 * limit THEN "map_reduce" ELSE "stuff"

\* The retry loops and the tools are not running.
LoopsIdle ==
    /\ notebook = "docs"
    /\ tool = ToolObj("none", Text(""), <<>>, "")
    /\ opc = "off"
    /\ i = -1
    /\ response = Unbound
    /\ displayed = Unbound
    /\ apc = "idle"
    /\ calls = 0
    /\ exc = NoExc
    /\ failures = 0
    /\ lastExc = NoExc
    /\ raised = <<>>
    /\ returned = Unbound
    /\ inflight = 0
    /\ ToolIdle

\* The search has returned top_docs; the model and the prompts are fixed.
InitDocs ==
    /\ LoopsIdle
    /\ dpc = "select"
    /\ top_docs \in SeqsUpTo(DocTokens, MaxDocs)
    /\ tokens_limit \in TokenLimits
    /\ prompt_tokens \in PromptTokens
    /\ completion_tokens \in CompletionTokens
    /\ requested_tokens = 0
    /\ chain_type = "unbound"
    /\ chain = "unbound"
    /\ ReducerIdle
    /\ UploadIdle
    /\ IdsIdle

\* The cell "Calculate number of tokens of our docs", with documents.
SelectChainType ==
    /\ dpc = "select"
    /\ Len(top_docs) > 0
    /\ requested_tokens' = prompt_tokens + num_tokens_from_docs(top_docs) + completion_tokens
    /\ chain_type' = ChainType(requested_tokens', tokens_limit)
    /\ dpc' = "build"
    /\ UNCHANGED <<top_docs, tokens_limit, prompt_tokens, completion_tokens, chain>>
    /\ UNCHANGED loopVars
    /\ UNCHANGED toolVars
    /\ UNCHANGED redVars
    /\ UNCHANGED upVars
    /\ UNCHANGED idVars

\* The same cell without documents: it prints "NO RESULTS FROM AZURE SEARCH".
SelectNoResults ==
    /\ dpc = "select"
    /\ Len(top_docs) = 0
    /\ dpc' = "build"
    /\ UNCHANGED <<top_docs, tokens_limit, prompt_tokens, completion_tokens,
                   requested_tokens, chain_type, chain>>
    /\ UNCHANGED loopVars
    /\ UNCHANGED toolVars
    /\ UNCHANGED redVars
    /\ UNCHANGED upVars
    /\ UNCHANGED idVars

\* The next cell: if chain_type == "stuff": ... elif chain_type == "map_reduce": ...
\* Reading a name that was never assigned raises NameError.
BuildChain ==
    /\ dpc = "build"
    /\ IF chain_type = "unbound"
       THEN /\ dpc' = "NameError"
            /\ UNCHANGED chain
       ELSE /\ dpc' = "built"
            /\ chain' = chain_type
    /\ UNCHANGED <<top_docs, tokens_limit, prompt_tokens, completion_tokens,
                   requested_tokens, chain_type>>
    /\ UNCHANGED loopVars
    /\ UNCHANGED toolVars
    /\ UNCHANGED redVars
    /\ UNCHANGED upVars
    /\ UNCHANGED idVars

DocsDone ==
    /\ dpc \in {"built", "NameError"}
    /\ UNCHANGED vars

NextDocs ==
    \/ SelectChainType
    \/ SelectNoResults
    \/ BuildChain
    \/ DocsDone

SpecDocs == InitDocs /\ [][NextDocs]_vars

----------------------------------------------------------------------------
(* 09-API-Search.ipynb: the cells of the spec download, the reduction and the *)
(* size printout.                                                            *)

\* The state before the download cell.
InitReducer ==
    /\ LoopsIdle
    /\ DocsIdle
    /\ rpc = "download"
    /\ spec = NoneSpec
    /\ reduced_api_spec = NoneSpec
    /\ spec_tokens = 0
    /\ reduced_tokens = 0
    /\ UploadIdle
    /\ IdsIdle

ReducerFrame ==
    /\ UNCHANGED loopVars
    /\ UNCHANGED toolVars
    /\ UNCHANGED docVars
    /\ UNCHANGED upVars
    /\ UNCHANGED idVars

\* response = requests.get(url); status 200: spec = response.json().
DownloadOk ==
    /\ rpc = "download"
    /\ spec' \in ValidSpecs \cup MalformedSpecs
    /\ rpc' = "reduce"
    /\ UNCHANGED <<reduced_api_spec, spec_tokens, reduced_tokens>>
    /\ ReducerFrame

\* Any other status: spec = None, and the failure is printed.
DownloadFailed ==
    /\ rpc = "download"
    /\ spec' = NoneSpec
    /\ rpc' = "reduce"
    /\ UNCHANGED <<reduced_api_spec, spec_tokens, reduced_tokens>>
    /\ ReducerFrame

\* reduced_api_spec = reduce_openapi_spec(spec)
Reduce ==
    /\ rpc = "reduce"
    /\ reduced_api_spec' = reduce_openapi_spec(spec)
    /\ rpc' = IF reduced_api_spec'.kind = "exception" THEN "raised" ELSE "count"
    /\ UNCHANGED <<spec, spec_tokens, reduced_tokens>>
    /\ ReducerFrame

\* The two num_tokens_from_string(str(...)) printouts.
CountTokens ==
    /\ rpc = "count"
    /\ spec_tokens' = SerializedSize(spec)
    /\ reduced_tokens' = SerializedSize(reduced_api_spec)
    /\ rpc' = "done"
    /\ UNCHANGED <<spec, reduced_api_spec>>
    /\ ReducerFrame

ReducerDone ==
    /\ rpc \in {"done", "raised"}
    /\ UNCHANGED vars

NextReducer ==
    \/ DownloadOk
    \/ DownloadFailed
    \/ Reduce
    \/ CountTokens
    \/ ReducerDone

SpecReducer == InitReducer /\ [][NextReducer]_vars

----------------------------------------------------------------------------
(* 04-Complex-Docs.ipynb: the upload of the parsed pages to the index *)

\* Bounds on the books, on the pages of one book, and on the page numbers
\* whose ids are compared.
MaxBooks == 2
MaxPages == 2
MaxPageNum == 11

\* Texts are sequences of characters.
Digits == <<"0", "1", "2", "3", "4", "5", "6", "7", "8", "9">>

\* str(n) of a natural number: its decimal digits.
RECURSIVE Str(_)
Str(n) == IF n < 10 THEN <<Digits[n + 1]>> ELSE Append(Str(n \div 10), Digits[(n % 10) + 1])

\* The code of a character.
Ord(c) ==
    CASE c = "." -> 46
      [] c = "b" -> 98
      [] c = "d" -> 100
      [] c = "f" -> 102
      [] c = "p" -> 112
      [] OTHER -> 47 + CHOOSE k \in 1..10 : Digits[k] = c

Utf8(t) == [k \in 1..Len(t) |-> Ord(t[k])]

\* Base64 of a byte sequence: three bytes make four 6-bit symbols; one or
\* two bytes left over make two or three symbols and padding.
Padding == 64
RECURSIVE b64encode(_)
b64encode(bs) ==
    IF Len(bs) = 0 THEN <<>>
    ELSE IF Len(bs) = 1
    THEN <<bs[1] \div 4, (bs[1] % 4) * 16, Padding, Padding>>
    ELSE IF Len(bs) = 2
    THEN <<bs[1] \div 4, (bs[1] % 4) * 16 + (bs[2] \div 16), (bs[2] % 16) * 4, Padding>>
    ELSE <<bs[1] \div 4, (bs[1] % 4) * 16 + (bs[2] \div 16),
           (bs[2] % 16) * 4 + (bs[3] \div 64), bs[3] % 64>>
         \o b64encode(SubSeq(bs, 4, Len(bs)))

text_to_base64(t) == b64encode(Utf8(t))

\* "id": text_to_base64(bookname + str(page_num))
DocId(bookname, page_num) == text_to_base64(bookname \o Str(page_num))

\* File names of books: "b", "b1" and "b.pdf".
BookNames == { <<"b">>, <<"b", "1">>, <<"b", ".", "p", "d", "f">> }

\* book_pages_map: a dict, so the names differ; each book with its number of
\* parsed pages.
Book(n, k) == [name |-> n, pages |-> k]
BookMaps ==
    { m \in UNION { [1..l -> { Book(n, k) : n \in BookNames, k \in 0..MaxPages }]
                    : l \in 1..MaxBooks }
        : \A a, b \in 1..Len(m) : a # b => m[a].name # m[b].name }

\* The k-th entry of a book map: (page index, offset, text).
Page(k) == <<k - 1, 0, "text">>

\* page_num = page[0] + 1
PageNumOf(page) == page[1] + 1

\* All (book, page_num) of a map in the order of the two for statements.
RECURSIVE PagesFrom(_, _, _)
PagesFrom(m, b, k) ==
    IF b > Len(m) THEN <<>>
    ELSE IF k > m[b].pages THEN PagesFrom(m, b + 1, 1)
    ELSE << <<m[b].name, PageNumOf(Page(k))>> >> \o PagesFrom(m, b, k + 1)
AllPages(m) == PagesFrom(m, 1, 1)

\* Status codes of the index's answer.
Statuses == {200, 400}

\* Variant: the except clause ends the book instead of going on.
AfterUploadExceptBreak(k) == "book"

\* `continue` at the end of the except clause: the next page is next.
AfterUploadExcept(k) == "page"

InitUpload ==
    /\ LoopsIdle
    /\ DocsIdle
    /\ ReducerIdle
    /\ IdsIdle
    /\ upc = "book"
    /\ book_pages_map \in BookMaps
    /\ bk = 0
    /\ pg = 0
    /\ attempted = <<>>
    /\ posted = <<>>
    /\ reports = <<>>

UploadFrame ==
    /\ UNCHANGED loopVars
    /\ UNCHANGED toolVars
    /\ UNCHANGED docVars
    /\ UNCHANGED redVars
    /\ UNCHANGED idVars

\* The (book, page_num) the loop body is working on.
CurrentPage == <<book_pages_map[bk].name, PageNumOf(Page(pg))>>

\* for bookname, bookmap in book_pages_map.items(): the next book.
BookEnter ==
    /\ upc = "book"
    /\ bk < Len(book_pages_map)
    /\ bk' = bk + 1
    /\ pg' = 0
    /\ upc' = "page"
    /\ UNCHANGED <<book_pages_map, attempted, posted, reports>>
    /\ UploadFrame

\* No book is left.
BooksExhausted ==
    /\ upc = "book"
    /\ bk >= Len(book_pages_map)
    /\ upc' = "done"
    /\ UNCHANGED <<book_pages_map, bk, pg, attempted, posted, reports>>
    /\ UploadFrame

\* for page in tqdm(bookmap): try: page_num = page[0] + 1; content = page[2]
PageEnter ==
    /\ upc = "page"
    /\ pg < book_pages_map[bk].pages
    /\ pg' = pg + 1
    /\ attempted' = Append(attempted, <<book_pages_map[bk].name, PageNumOf(Page(pg'))>>)
    /\ upc' = "embed"
    /\ UNCHANGED <<book_pages_map, bk, posted, reports>>
    /\ UploadFrame

\* No page of the book is left.
PagesExhausted ==
    /\ upc = "page"
    /\ pg >= book_pages_map[bk].pages
    /\ upc' = "book"
    /\ UNCHANGED <<book_pages_map, bk, pg, attempted, posted, reports>>
    /\ UploadFrame

\* upload_payload = {...}: embedder.embed_query(content) returns or raises.
Embed ==
    /\ upc = "embed"
    /\ upc' \in {"post", "except"}
    /\ UNCHANGED <<book_pages_map, bk, pg, attempted, posted, reports>>
    /\ UploadFrame

\* r = requests.post(...); if r.status_code != 200: print(r.status_code); print(r.text)
Post ==
    /\ upc = "post"
    /\ \/ /\ \E st \in Statuses :
                IF st = 200
                THEN /\ posted' = Append(posted, DocId(CurrentPage[1], CurrentPage[2]))
                     /\ UNCHANGED reports
                ELSE /\ reports' = Append(reports, [page |-> CurrentPage, kind |-> "status"])
                     /\ UNCHANGED posted
          /\ upc' = "page"
       \/ /\ upc' = "except"
          /\ UNCHANGED <<posted, reports>>
    /\ UNCHANGED <<book_pages_map, bk, pg, attempted>>
    /\ UploadFrame

\* except Exception as e: print("Exception:", e); print(content); continue
UploadExcept ==
    /\ upc = "except"
    /\ reports' = Append(reports, [page |-> CurrentPage, kind |-> "Exception"])
    /\ upc' = AfterUploadExcept(pg)
    /\ UNCHANGED <<book_pages_map, bk, pg, attempted, posted>>
    /\ UploadFrame

UploadDone ==
    /\ upc = "done"
    /\ UNCHANGED vars

NextUpload ==
    \/ BookEnter
    \/ BooksExhausted
    \/ PageEnter
    \/ PagesExhausted
    \/ Embed
    \/ Post
    \/ UploadExcept
    \/ UploadDone

SpecUpload == InitUpload /\ [][NextUpload]_vars

(* The ids of two pages *)

PagePairs == { <<n, k>> : n \in BookNames, k \in 1..MaxPageNum }

InitIds ==
    /\ LoopsIdle
    /\ DocsIdle
    /\ ReducerIdle
    /\ UploadIdle
    /\ ipc = "pick"
    /\ pairs \in { <<a, b>> : a \in PagePairs, b \in PagePairs }
    /\ ids = <<>>

\* The "id" fields of the two pages' upload payloads.
ComputeIds ==
    /\ ipc = "pick"
    /\ ids' = <<DocId(pairs[1][1], pairs[1][2]), DocId(pairs[2][1], pairs[2][2])>>
    /\ ipc' = "done"
    /\ UNCHANGED pairs
    /\ UNCHANGED loopVars
    /\ UNCHANGED toolVars
    /\ UNCHANGED docVars
    /\ UNCHANGED redVars
    /\ UNCHANGED upVars

IdsDone ==
    /\ ipc = "done"
    /\ UNCHANGED vars

NextIds ==
    \/ ComputeIds
    \/ IdsDone

SpecIds == InitIds /\ [][NextIds]_vars

----------------------------------------------------------------------------
(* Properties of the tools and the retry loops *)

\* The current invocation has returned to the agent.
Returned == Len(trace) > 0 /\ trace[Len(trace)] = "return"

\* The invocation of MyAPISearch synthesized a URL outside a configured allow-list.
RejectedCase ==
    /\ tool.cls = "MyAPISearch"
    /\ Len(tool.limit_to_domains) > 0
    /\ api_url # NoUrl
    /\ \A k \in 1..Len(tool.limit_to_domains) :
          \/ api_url.scheme # tool.limit_to_domains[k].scheme
          \/ api_url.netloc # tool.limit_to_domains[k].netloc

\* C1: with an allow-list configured, an invocation of MyAPISearch whose
\* synthesized URL is outside the allow-list issues no request and returns a
\* DomainNotAllowed text.
C1_DomainEnforcedAsText ==
    RejectedCase =>
        /\ sent = <<>>
        /\ Returned => toolResult = Text(DomainNotAllowed.val)

\* C2: no exception leaves _run of either tool.
C2_NoExceptionLeavesRun == tpc # "raised"

\* C3: the value _run returns is always a str.
C3_ResultIsText == Returned => toolResult.kind = "text"

\* Every attempt of the loop has raised and the loop has ended.
AllAttemptsRaised == opc = "done" /\ failures = i + 1

\* C4 (as stated): when every attempt raises, the turn runs at most twice and
\* the final result is the fixed message "Error too many failed retries".
C4_TwoAttemptsFixedMessage ==
    AllAttemptsRaised => (i + 1 <= 2 /\ displayed = TooManyRetries)

\* C4 (amended): when every attempt raises, the API-search loops have run the
\* turn exactly 2 times and display the last exception's message text; the
\* tabular loop has run it exactly 5 times and displays the fixed message. No
\* loop ever makes more attempts than that.
C4_RetryBoundPerLoop ==
    /\ i + 1 <= (IF notebook = "tabular" THEN 5 ELSE 2)
    /\ AllAttemptsRaised =>
          IF notebook = "tabular"
          THEN i + 1 = 5 /\ displayed = Text("Error too many failed retries")
          ELSE i + 1 = 2 /\ displayed = Text(lastExc.val)

C4_Witness ==
    /\ AllAttemptsRaised
    /\ notebook = "api"
    /\ displayed = Text(ParseError.val)

\* C9: every invocation of MySimpleAPISearch issues exactly one GET to the
\* fixed endpoint, with search_term the query, api_key the tool's key and the
\* other parameters fixed.
C9_OneFixedGet ==
    tool.cls = "MySimpleAPISearch" =>
        /\ Len(sent) <= 1
        /\ tpc \in {"dumps", "except", "return", "raised"} \/ Returned => Len(sent) = 1
        /\ \A k \in 1..Len(sent) :
              /\ sent[k].method = "GET"
              /\ sent[k].url = "https://api.countdownapi.com/request"
              /\ sent[k].params = [api_key |-> tool.api_key, type |-> "search",
                                   ebay_domain |-> "ebay.com", search_term |-> query]

C9_Witness ==
    /\ tool.cls = "MySimpleAPISearch"
    /\ tool.api_key = "key-1"
    /\ Returned
    /\ Len(sent) = 1
    /\ sent[1].params.search_term = "SanDisk memory card price"

\* Position of a step in the order synthesis, check, execution, summary, return.
Rank(step) ==
    CASE step = "synth" -> 1
      [] step = "check" -> 2
      [] step = "execute" -> 3
      [] step = "summarize" -> 4
      [] step = "return" -> 5

Before(a, k) == \E j \in 1..(k - 1) : trace[j] = a

\* C10: within one invocation of MyAPISearch the steps occur in the order
\* synthesis, allow-list check, execution, summary, return, each at most once:
\* execution never precedes synthesis or the check, the summary never precedes
\* execution, at most one request is issued, and a returned summary has gone
\* through all five steps.
C10_StepOrder ==
    tool.cls = "MyAPISearch" =>
        /\ \A a, b \in 1..Len(trace) : a < b => Rank(trace[a]) < Rank(trace[b])
        /\ \A k \in 1..Len(trace) :
              /\ trace[k] = "execute" => Before("synth", k) /\ Before("check", k)
              /\ trace[k] = "summarize" => Before("execute", k)
        /\ Len(sent) = Cardinality({k \in 1..Len(trace) : trace[k] = "execute"})
        /\ (Returned /\ toolResult = Text("summary")) =>
              trace = <<"synth", "check", "execute", "summarize", "return">>

C10_Witness ==
    /\ tool.cls = "MyAPISearch"
    /\ trace = <<"synth", "check", "execute", "summarize", "return">>
    /\ toolResult = Text("summary")
    /\ Len(sent) = 1

----------------------------------------------------------------------------
(* Properties of the chain_type selection *)

\* A strategy has been selected for the documents found.
Selected == dpc \in {"build", "built"} /\ Len(top_docs) > 0

\* C5: with budget B, prompt tokens p, context tokens c and completion tokens
\* m, "map_reduce" is selected iff p + c + m > 0.9 * B (that is, iff
\* 10 * (p + c + m) > 9 * B) and "stuff" otherwise; equality selects "stuff",
\* and B = 32768, p = 1669, c = 4111, m = 1000 selects "stuff".
C5_BudgetThreshold ==
    Selected =>
        LET c == num_tokens_from_docs(top_docs)
            total == prompt_tokens + c + completion_tokens
        IN  /\ requested_tokens = total
            /\ chain_type \in {"stuff", "map_reduce"}
            /\ chain_type = "map_reduce" <=> 10 * total > 9 * tokens_limit
            /\ 10 * total = 9 * tokens_limit => chain_type = "stuff"
            /\ (tokens_limit = 32768 /\ prompt_tokens = 1669 /\ c = 4111
                  /\ completion_tokens = 1000)
                  => (total = 6780 /\ chain_type = "stuff")

\* The threshold is met exactly and the single pass is selected.
C5_Witness ==
    /\ Selected
    /\ 10 * requested_tokens = 9 * tokens_limit
    /\ chain_type = "stuff"

----------------------------------------------------------------------------
(* Properties of the reduction *)

\* The reduction of a description with operations has been computed.
ReducedValid == rpc \in {"count", "done"} /\ HasOperations(spec)

\* C6: reducing a reduced description gives the same reduced description.
C6_ReduceIdempotent ==
    ReducedValid => reduce_openapi_spec(reduced_api_spec) = reduced_api_spec

\* A description whose summary came from the description text and whose
\* parameters lost schema and example has been reduced.
C6_Witness ==
    /\ ReducedValid
    /\ Len(spec.paths) = 2
    /\ "summary" \notin DOMAIN spec.paths[1]
    /\ "description" \in DOMAIN spec.paths[1]
    /\ "parameters" \in DOMAIN spec.paths[1]
    /\ reduced_api_spec.paths[1].summary = spec.paths[1].description
    /\ reduced_api_spec # spec

NothingDefaulted(d) ==
    \A k \in 1..Len(d.paths) :
        LET op == d.paths[k]
        IN  /\ "summary" \in DOMAIN op \/ "description" \in DOMAIN op
            /\ "parameters" \in DOMAIN op
            /\ \A j \in 1..Len(op.parameters) :
                  /\ "required" \in DOMAIN op.parameters[j]
                  /\ "type" \in DOMAIN op.parameters[j]

C8_MalformedSpecIsText ==
    /\ rpc # "raised"
    /\ (rpc \in {"count", "done"} /\ ~HasOperations(spec))
          => reduced_api_spec = [kind |-> "text", val |-> "MalformedSpec"]
    /\ (rpc = "done" /\ ~HasOperations(spec)) => reduced_tokens = 1

C8_Witness ==
    /\ rpc = "done"
    /\ spec = NoneSpec
    /\ reduced_api_spec = [kind |-> "text", val |-> "MalformedSpec"]

----------------------------------------------------------------------------
(* Frame, sequencing and error surfacing of the tools and the loops *)

\* Every exception of the model.
AllExceptions ==
    {ConstructionError, ModelFailure, DomainNotAllowed, UpstreamFailure, DecodeError,
     ParseError, AsyncNotSupported}

\* The texts the except clauses of the loops can leave in `response`.
ErrorTexts == {TooManyRetries} \cup { StrOf(e) : e \in AllExceptions }

\* What the returned invocation can have handed back, given its own steps,
\* URL and response body only.
ExpectedResults ==
    IF tool.cls = "MyAPISearch"
    THEN CASE trace = <<"synth", "return">> -> {ModelFailure}
           [] trace = <<"synth", "check", "return">> -> {DomainNotAllowed}
           [] trace = <<"synth", "check", "execute", "return">> -> {UpstreamFailure}
           [] trace = <<"synth", "check", "execute", "summarize", "return">> ->
                  {Text("summary"), ModelFailure}
           [] OTHER -> {}
    ELSE IF trace = <<"execute", "return">>
         THEN {IF api_response = "{json}" THEN Text(api_response) ELSE DecodeError}
         ELSE {}

\* C11: no step changes the tool object (name, description, api_spec,
\* headers, limit_to_domains, api_key), and what an invocation returns is
\* determined by its own steps and its collaborators' answers, whatever the
\* number of attempts and invocations before it.
C11_InvocationLeavesNoMark ==
    /\ [][tool' = tool]_vars
    /\ [](Returned => toolResult \in ExpectedResults)

C11_Witness ==
    /\ Returned
    /\ i = 1
    /\ failures = 1
    /\ calls = 2
    /\ toolResult = Text("summary")

\* C12: at most one tool invocation is running at any time and the agent is
\* inside the tool exactly then; an invocation issues at most one request;
\* _arun issues none, takes no step of _run and raises NotImplementedError.
C12_OneCallInFlight ==
    /\ inflight \in {0, 1}
    /\ (inflight = 1) <=> (apc = "tool")
    /\ (tpc # "idle") => (inflight = 1)
    /\ Len(sent) <= 1
    /\ (tpc \in {"arun", "araised"}) => (sent = <<>> /\ trace = <<>>)
    /\ (tpc = "araised") => (exc = ExcObj("This Tool does not support async"))

C12_Witness ==
    /\ tpc = "araised"
    /\ calls = 2
    /\ inflight = 1
    /\ sent = <<>>

\* The last invocation of the last attempt handed back an exception and the
\* agent made no invocation after it.
LastInvocationFailed == calls > 0 /\ Returned /\ toolResult.kind = "exception"

----------------------------------------------------------------------------
(* Properties of the reduced description's content *)

\* C15: an operation without parameters, or without summary and description,
\* is reduced without an error: the reduction is a mapping, nothing is
\* raised, and the absent fields are there with empty values; a parameter
\* without required flag or type gets False and the empty string.
C15_AbsentFieldsDefaulted ==
    (rpc \in {"count", "done", "raised"} /\ HasOperations(spec)) =>
        /\ rpc # "raised"
        /\ reduced_api_spec.kind = "mapping"
        /\ \A k \in 1..Len(spec.paths) :
              LET op == spec.paths[k]
                  r == reduced_api_spec.paths[k]
              IN  /\ {"summary", "parameters"} \subseteq DOMAIN r
                  /\ ("parameters" \notin DOMAIN op) => (r.parameters = <<>>)
                  /\ ("summary" \notin DOMAIN op /\ "description" \notin DOMAIN op)
                        => (r.summary = <<>>)
                  /\ ("parameters" \in DOMAIN op) =>
                        \A j \in 1..Len(op.parameters) :
                            /\ ("required" \notin DOMAIN op.parameters[j])
                                  => (r.parameters[j].required = FALSE)
                            /\ ("type" \notin DOMAIN op.parameters[j])
                                  => (r.parameters[j].type = "")

C15_Witness ==
    /\ rpc = "done"
    /\ HasOperations(spec)
    /\ Len(spec.paths) = 2
    /\ DOMAIN spec.paths[1] = {"method", "path", "responses"}
    /\ reduced_api_spec.paths[1].summary = <<>>
    /\ reduced_api_spec.paths[1].parameters = <<>>
    /\ "parameters" \in DOMAIN spec.paths[2]
    /\ Len(spec.paths[2].parameters) = 2
    /\ reduced_api_spec.paths[2].parameters[2].type = ""

\* C16: the reduced description has one entry per operation of the input,
\* in the same order, with the same method and path, the input's summary
\* (its description text when it has no summary), and of every parameter the
\* name, location, required flag and type and nothing else; its (method,
\* path) pairs are unique.
C16_OneEntryPerOperation ==
    ReducedValid =>
        /\ DOMAIN reduced_api_spec = {"kind", "paths"}
        /\ Len(reduced_api_spec.paths) = Len(spec.paths)
        /\ \A k \in 1..Len(spec.paths) :
              LET op == spec.paths[k]
                  r == reduced_api_spec.paths[k]
              IN  /\ DOMAIN r = {"method", "path", "summary", "parameters"}
                  /\ r.method = op.method
                  /\ r.path = op.path
                  /\ ("summary" \in DOMAIN op) => (r.summary = op.summary)
                  /\ ("summary" \notin DOMAIN op /\ "description" \in DOMAIN op)
                        => (r.summary = op.description)
                  /\ ("parameters" \in DOMAIN op) =>
                        /\ Len(r.parameters) = Len(op.parameters)
                        /\ \A j \in 1..Len(op.parameters) :
                              LET ip == op.parameters[j]
                                  rp == r.parameters[j]
                              IN  /\ DOMAIN rp = {"name", "in", "required", "type"}
                                  /\ rp.name = ip.name
                                  /\ rp.in = ip.in
                                  /\ ("required" \in DOMAIN ip) => (rp.required = ip.required)
                                  /\ ("type" \in DOMAIN ip) => (rp.type = ip.type)
        /\ UniqueKeys(spec.paths)
        /\ UniqueKeys(reduced_api_spec.paths)

C16_Witness ==
    /\ ReducedValid
    /\ Len(spec.paths) = 2
    /\ {"summary", "description", "parameters"} \subseteq DOMAIN spec.paths[1]
    /\ reduced_api_spec.paths[1].summary = spec.paths[1].summary
    /\ spec.paths[1].summary # spec.paths[1].description
    /\ "summary" \notin DOMAIN spec.paths[2]
    /\ "description" \in DOMAIN spec.paths[2]
    /\ reduced_api_spec.paths[2].summary = spec.paths[2].description
    /\ "schema" \in DOMAIN spec.paths[1].parameters[1]
    /\ "schema" \notin DOMAIN reduced_api_spec.paths[1].parameters[1]

----------------------------------------------------------------------------
(* The description the tool holds; the loops' handling of exceptions *)

\* The chain of the current invocation has been built.
ChainBuilt == tpc \in {"sleep", "synth", "check", "execute", "summarize"}

C19_EveryExceptionRetried ==
    /\ opc # "aborted"
    /\ (opc = "for" /\ i >= 0) => (failures = i + 1 /\ lastExc \in AllExceptions)
    /\ (opc = "for" /\ i + 1 < (IF notebook = "tabular" THEN 5 ELSE 2))
          => ENABLED LoopEnter

C19_Witness ==
    /\ opc = "try"
    /\ i = 1
    /\ failures = 1
    /\ lastExc = ExcObj("chain construction failed")

\* An attempt is left only by its run returning or by an exception.
AttemptRunsToItsEnd ==
    (opc = "try") =>
        \/ opc' = "try"
        \/ opc' = "print" /\ apc = "think" /\ response'.kind = "text" /\ failures' = failures
        \/ opc' = "for" /\ failures' = failures + 1 /\ lastExc' \in AllExceptions

\* C20: every run of a loop reaches the end of its cell; it never makes more
\* than 2 (API search) or 5 (tabular) attempts; when it ends without an
\* answer every one of these attempts has been made and has raised; an
\* attempt is left only by returning or raising.
C20_LoopTerminates ==
    /\ <>(opc = "done")
    /\ [](i + 1 <= (IF notebook = "tabular" THEN 5 ELSE 2))
    /\ []((opc = "done" /\ displayed \in ErrorTexts) =>
            (failures = i + 1 /\ failures = (IF notebook = "tabular" THEN 5 ELSE 2)))
    /\ [][AttemptRunsToItsEnd]_vars

C20_Witness ==
    /\ opc = "done"
    /\ notebook = "tabular"
    /\ failures = 5
    /\ displayed = Text("Error too many failed retries")

----------------------------------------------------------------------------
(* What the retry loops display; how often the tool runs its chain *)

\* C21: once an attempt has returned, the loop is over (no attempt is running
\* or pending), that attempt was the first after the failed ones, `response`
\* is its return value, and that value is what the cell displays.
C21_FirstReturnEndsLoop ==
    /\ (returned # Unbound) =>
          /\ opc \in {"print", "done"}
          /\ response = returned
          /\ failures = i
          /\ Len(raised) = i
    /\ (opc = "done" /\ returned # Unbound) => (displayed = returned)

C21_Witness ==
    /\ opc = "done"
    /\ notebook = "api"
    /\ Len(raised) = 1
    /\ returned = Text("final answer")
    /\ displayed = returned
    /\ displayed # Text(raised[1].val)

\* C22: in the API-search loops, after two failed attempts the cell displays
\* the message of the second exception: not the first one's where they
\* differ, and not the fixed message.
C22_LastMessageDisplayed ==
    (notebook \in {"api", "simple"} /\ opc = "done" /\ Len(raised) = 2) =>
        /\ displayed = Text(raised[2].val)
        /\ (raised[1] # raised[2]) => (displayed # Text(raised[1].val))
        /\ displayed # Text("Error too many failed retries")

C22_Witness ==
    /\ notebook = "api"
    /\ opc = "done"
    /\ Len(raised) = 2
    /\ raised[1] = ExcObj("chain construction failed")
    /\ raised[2] = ExcObj("could not parse LLM output")
    /\ displayed = Text("could not parse LLM output")

\* C23: the tabular loop makes at most 5 attempts; what it prints is the
\* fixed message exactly when 5 attempts have raised; no exception's text is
\* ever in `response` or printed.
C23_FixedMessageIffAllFailed ==
    (notebook = "tabular") =>
        /\ i + 1 <= 5
        /\ Len(raised) <= 5
        /\ (opc = "done") =>
              ((displayed = Text("Error too many failed retries")) <=> (Len(raised) = 5))
        /\ \A e \in AllExceptions : response # Text(e.val) /\ displayed # Text(e.val)

C23_Witness ==
    /\ notebook = "tabular"
    /\ opc = "done"
    /\ Len(raised) = 4
    /\ i = 4
    /\ displayed = Text("final answer")

\* C24 (as stated): between invocations, MyAPISearch._run has built as many
\* chains, paused as often and run the chain as often as it was called.
C24_RunsEqualInvocations ==
    (tpc = "idle") =>
        /\ counts.built = counts.runs
        /\ counts.sleeps = counts.runs
        /\ counts.chainRuns = counts.runs

\* C24 (amended): an invocation starts the chain at most once, and exactly
\* once when it returns; between invocations the chain has been run, and the
\* pause taken, as often as a chain was built, which is at most as often as
\* _run was called: a call whose chain construction raises runs nothing.
C24_RunsEqualBuiltChains ==
    /\ ChainRunsOf(trace) <= 1
    /\ (Returned /\ tool.cls = "MyAPISearch") => (ChainRunsOf(trace) = 1)
    /\ counts.chainRuns <= counts.sleeps
    /\ counts.sleeps <= counts.built
    /\ counts.built <= counts.runs
    /\ (tpc = "idle") =>
          /\ counts.chainRuns = counts.built
          /\ counts.sleeps = counts.built

C24_Witness ==
    /\ tool.cls = "MyAPISearch"
    /\ Returned
    /\ tpc = "idle"
    /\ toolResult = ExcObj("completion request failed")
    /\ counts = [runs |-> 2, built |-> 1, sleeps |-> 1, chainRuns |-> 1]

\* C25: when the chain-construction cell is reached, chain_type is "stuff"
\* or "map_reduce".
C25_StrategyBoundAtConstruction ==
    (dpc = "build") => (chain_type \in {"stuff", "map_reduce"})

----------------------------------------------------------------------------
(* Properties of the upload loop *)

\* C26: the pages the loop body has been entered for are, at every moment,
\* the first pages of all books' pages in order, each once; when the loop
\* ends they are all of them; every page the loop is through with has either
\* been accepted by the index or been reported, so a failed page stops
\* nothing after it.
C26_EveryPageAttemptedOnce ==
    /\ Len(attempted) <= Len(AllPages(book_pages_map))
    /\ attempted = SubSeq(AllPages(book_pages_map), 1, Len(attempted))
    /\ \A a, b \in 1..Len(attempted) : (a # b) => (attempted[a] # attempted[b])
    /\ (upc = "done") => (attempted = AllPages(book_pages_map))
    /\ (upc \in {"book", "page", "done"}) => (Len(posted) + Len(reports) = Len(attempted))
    /\ \A k \in 1..Len(reports) :
          \E a \in 1..Len(attempted) : attempted[a] = reports[k].page

C26_Witness ==
    /\ upc = "done"
    /\ Len(book_pages_map) = 2
    /\ Len(attempted) = 4
    /\ Len(reports) = 2
    /\ reports[1] = [page |-> attempted[1], kind |-> "Exception"]
    /\ reports[2] = [page |-> attempted[2], kind |-> "status"]
    /\ Len(posted) = 2

====
